---------------------------- MODULE Spec2Model ----------------------------
(***************************************************************************)
(* A model of the segmentation-and-resampling core of the transcriber      *)
(* (src/src-tauri/src/audio_processing.rs): the segment assembler and the  *)
(* gap merger of process_audio_file_with_progress, simple_resample,        *)
(* samples_to_wav_bytes, samples_to_wav_base64 and                         *)
(* extract_segment_from_file; and of the commands of                       *)
(* src/src-tauri/src/lib.rs that drive it: process_audio_vad and           *)
(* save_audio_file_chunked.                                                *)
(*                                                                         *)
(* Each component is a pure function of its arguments.  It is modelled as  *)
(* an operator that computes what the code computes, and is exercised by   *)
(* a specification of its own whose initial states enumerate the inputs    *)
(* and whose actions apply the function:                                   *)
(*   SpecAssemble  labels + buffer -> raw segments -> merged segments      *)
(*   SpecMerge     segment list + max_gap -> merged -> merged again        *)
(*   SpecResample  input + rates -> output                                 *)
(*   SpecWav       samples + rate -> container bytes -> base64 text        *)
(*   SpecExtract   decoded file + time range -> samples                    *)
(* The commands are modelled by their control flow:                        *)
(*   SpecPipeline  one run of process_audio_vad, with its progress values  *)
(*   SpecUpload    two chunked uploads whose calls interleave              *)
(*                                                                         *)
(* Numbers.  Sample indices are integers.  A time in seconds is held as a  *)
(* whole number of ticks of 1/TicksPerSecond s; one sample at 16 kHz is    *)
(* 125 ticks, so every time the code computes (sample / 16000.0) is an     *)
(* exact number of ticks.  u32 values are held as two 16-bit halves so     *)
(* that wrap-around at 2^32 is modelled.                                   *)
(***************************************************************************)
EXTENDS Integers, Sequences, FiniteSets, TLC

VARIABLES
    pc,               \* position of the run: which function has been applied
    content,          \* the 16 kHz mono sample buffer (Vec<i16>)
    labels,           \* the classifier's label stream, one label per chunk
    chunk_size,       \* samples per chunk
    segments,         \* the segment list (assembler output / merge input)
    max_gap_seconds,  \* merge threshold, in ticks
    merged,           \* output of merge_close_segments_with_progress
    remerged,         \* output of merge applied to `merged`
    rs_input,         \* simple_resample: input samples
    from_rate,        \* simple_resample: from_rate
    to_rate,          \* simple_resample: to_rate
    rs_result,        \* simple_resample: [output, reads, status]
    wav_samples,      \* samples_to_wav_bytes: samples
    wav_rate,         \* samples_to_wav_bytes: sample_rate (u32)
    wav_result,       \* samples_to_wav_bytes: [status, bytes]
    wav_base64,       \* samples_to_wav_base64: [status, text]
    file_path,        \* process_audio_vad: the path, [name, exists]
    progress,         \* the progress values passed to progress_callback
    decoder_calls,    \* calls of decode_audio_symphonia_with_progress
    decoded,          \* what the decoder returned: [status, packets, rate]
    raw_segments,     \* number of segments before the merge
    result,           \* what process_audio_vad returned
    ex_file,          \* extract_segment_from_file: what the file decodes to
    start_time_seconds,   \* extract_segment_from_file: start of the range
    end_time_seconds,     \* extract_segment_from_file: end of the range
    ex_result,        \* extract_segment_from_file: [status, samples, rate]
    processor,        \* the AudioProcessor the extraction is called on
    uploads,          \* the two upload sessions: names and chunks
    files,            \* the temporary directory: path -> bytes, or Absent
    alone_files,      \* per session, its file had it been the only session
    calls             \* save_audio_file_chunked calls: position and result

\* The variables of the pipeline run, of extract_segment_from_file and of the
\* upload commands.
pipeVars == <<file_path, progress, decoder_calls, decoded, raw_segments,
              result>>
exVars == <<ex_file, start_time_seconds, end_time_seconds, ex_result,
            processor>>
upVars == <<uploads, files, alone_files, calls>>
coreVars == <<content, labels, chunk_size, segments, max_gap_seconds, merged,
              remerged, rs_input, from_rate, to_rate, rs_result, wav_samples,
              wav_rate, wav_result, wav_base64>>

vars == <<pc, content, labels, chunk_size, segments, max_gap_seconds, merged,
          remerged, rs_input, from_rate, to_rate, rs_result, wav_samples,
          wav_rate, wav_result, wav_base64, pipeVars, exVars, upVars>>

rsVars  == <<rs_input, from_rate, to_rate, rs_result>>
wavVars == <<wav_samples, wav_rate, wav_result, wav_base64>>

-----------------------------------------------------------------------------
(* Bounds of the model.                                                    *)

MaxLabels == 4      \* longest label stream enumerated
MaxBuf == 7         \* longest sample buffer enumerated for the assembler
MaxChunk == 3       \* largest scaled-down chunk size enumerated
MaxSample == 4      \* length of the buffer the merge inputs are cut from
MaxSegs == 3        \* longest segment list enumerated as a merge input
MaxInput == 3       \* longest resampler input enumerated
MaxRate == 4        \* largest small sample rate enumerated
MaxLow == 1         \* f64 results per call that land below the exact value
MaxWavLen == 2      \* longest sample sequence encoded

(* Program constants.                                                      *)

SampleRateHz == 16000   \* sample_rate_f64 = 16000.0
ChunkSize == 512        \* let chunk_size = 512usize

TicksPerSample == 2000000 \div SampleRateHz
TicksPerSecond == TicksPerSample * SampleRateHz

\* merge_close_segments_with_progress(segments, &content, 1.5, ..)
PipelineMaxGapSeconds == (3 * TicksPerSecond) \div 2

\* let mut current_speech_start = None: Option<usize>, every Some(_) is >= 0.
None == -1

Min(a, b) == IF a <= b THEN a ELSE b

\* content[a..b] of Rust: the samples at 0-based indices a .. b-1.
Slice(buf, a, b) == SubSeq(buf, a + 1, b)

\* i16 sample at index i of a test buffer: distinct signed values, so that a
\* slice identifies the range it was cut from.
RampSample(i) == (i * 37) - 100
Ramp(n) == [i \in 1..n |-> RampSample(i - 1)]

\* start_time = speech_start as f64 / sample_rate_f64
TimeSeconds(sample) == sample * TicksPerSample

-----------------------------------------------------------------------------
(* AudioSegment (audio_base64 is not part of this model).                  *)

AudioSegment(start, end, start_time, end_time, audio) ==
    [start_sample |-> start, end_sample |-> end,
     start_time_seconds |-> start_time, end_time_seconds |-> end_time,
     audio_data |-> audio]

-----------------------------------------------------------------------------
(* SegmentAssembler: the label scan of process_audio_file_with_progress.   *)

\* let chunk_start_sample = chunk_index * chunk_size;
ChunkStartSampleMutant(chunk_index, size) == (chunk_index + 1) * size

ChunkStartSample(chunk_index, size) == chunk_index * size

\* LabeledAudio::Speech: if current_speech_start.is_none() { Some(start) }
OnSpeechMutant(current_speech_start, chunk_start_sample) == chunk_start_sample

OnSpeech(current_speech_start, chunk_start_sample) ==
    IF current_speech_start = None THEN chunk_start_sample
    ELSE current_speech_start

\* The NonSpeech close: the segment speech_start .. speech_end with the slice
\* clamped to the buffer, pushed only when the slice is not empty.
CloseSegment(buf, speech_start, speech_end) ==
    LET start_idx == Min(speech_start, Len(buf))
        end_idx == Min(speech_end, Len(buf))
        segment_audio == Slice(buf, start_idx, end_idx)
    IN  IF segment_audio # <<>>
        THEN <<AudioSegment(speech_start, speech_end,
                            TimeSeconds(speech_start), TimeSeconds(speech_end),
                            segment_audio)>>
        ELSE <<>>

\* The segment still open when the labels end: speech_end = content.len().
CloseRemaining(buf, speech_start) ==
    LET speech_end == Len(buf)
        start_idx == Min(speech_start, Len(buf))
        segment_audio == Slice(buf, start_idx, Len(buf))
    IN  IF segment_audio # <<>>
        THEN <<AudioSegment(speech_start, speech_end,
                            TimeSeconds(speech_start), TimeSeconds(speech_end),
                            segment_audio)>>
        ELSE <<>>

\* for (chunk_index, label) in labels.iter().enumerate() { .. } followed by
\* the handling of the remaining open segment.  k is the number of labels
\* already scanned.
RECURSIVE AssembleFrom(_, _, _, _, _, _)
AssembleFrom(lbls, size, buf, k, current_speech_start, segs) ==
    IF k = Len(lbls)
    THEN IF current_speech_start # None
         THEN segs \o CloseRemaining(buf, current_speech_start)
         ELSE segs
    ELSE LET chunk_start_sample == ChunkStartSample(k, size)
         IN  IF lbls[k + 1] = "Speech"
             THEN AssembleFrom(lbls, size, buf, k + 1,
                               OnSpeech(current_speech_start, chunk_start_sample),
                               segs)
             ELSE IF current_speech_start # None
                  THEN AssembleFrom(lbls, size, buf, k + 1, None,
                           segs \o CloseSegment(buf, current_speech_start,
                                                chunk_start_sample))
                  ELSE AssembleFrom(lbls, size, buf, k + 1, None, segs)

AssembleSegmentsMutant(lbls, size, buf) ==
    AssembleFrom(lbls, size, buf, 0, 0, <<>>)

AssembleSegments(lbls, size, buf) == AssembleFrom(lbls, size, buf, 0, None, <<>>)

-----------------------------------------------------------------------------
(* SegmentMerger: merge_close_segments_with_progress.                      *)

\* segments.sort_by(|a, b| a.start_time_seconds.partial_cmp(..)): a stable
\* sort, so segments with equal start times keep their order.
RECURSIVE InsertByStartMutant(_, _)
InsertByStartMutant(sorted, seg) ==
    IF sorted = <<>> THEN <<seg>>
    ELSE IF sorted[Len(sorted)].start_time_seconds < seg.start_time_seconds
         THEN Append(sorted, seg)
         ELSE Append(InsertByStartMutant(SubSeq(sorted, 1, Len(sorted) - 1),
                                         seg),
                     sorted[Len(sorted)])

RECURSIVE InsertByStart(_, _)
InsertByStart(sorted, seg) ==
    IF sorted = <<>> THEN <<seg>>
    ELSE IF sorted[Len(sorted)].start_time_seconds <= seg.start_time_seconds
         THEN Append(sorted, seg)
         ELSE Append(InsertByStart(SubSeq(sorted, 1, Len(sorted) - 1), seg),
                     sorted[Len(sorted)])

RECURSIVE SortFrom(_, _, _)
SortFrom(segs, i, sorted) ==
    IF i > Len(segs) THEN sorted
    ELSE SortFrom(segs, i + 1, InsertByStart(sorted, segs[i]))

SortByStartMutant(segs) == segs

SortByStart(segs) == SortFrom(segs, 1, <<>>)

\* let gap = next.start_time_seconds - current.end_time_seconds;
GapMutant(current, next) ==
    next.start_time_seconds - current.start_time_seconds

Gap(current, next) == next.start_time_seconds - current.end_time_seconds

\* if gap <= max_gap_seconds
ShouldMergeMutant(gap, max_gap) == gap < max_gap

ShouldMerge(gap, max_gap) == gap <= max_gap

\* The merged segment: current.start_sample .. next.end_sample, the times of
\* the same two ends, and the buffer re-sliced over the clamped range.
MergedSegmentMutant(current, next, buf) ==
    LET merged_start == current.start_sample
        merged_end == current.end_sample
        start_idx == Min(merged_start, Len(buf))
        end_idx == Min(merged_end, Len(buf))
    IN  AudioSegment(merged_start, merged_end, current.start_time_seconds,
                     current.end_time_seconds, Slice(buf, start_idx, end_idx))

MergedSegment(current, next, buf) ==
    LET merged_start == current.start_sample
        merged_end == next.end_sample
        merged_start_time == current.start_time_seconds
        merged_end_time == next.end_time_seconds
        start_idx == Min(merged_start, Len(buf))
        end_idx == Min(merged_end, Len(buf))
        merged_audio == Slice(buf, start_idx, end_idx)
    IN  AudioSegment(merged_start, merged_end, merged_start_time,
                     merged_end_time, merged_audio)

\* for next in segments_iter { .. } merged.push(current);
RECURSIVE MergeLoop(_, _, _, _, _, _)
MergeLoop(sorted, i, current, out, buf, max_gap) ==
    IF i > Len(sorted) THEN Append(out, current)
    ELSE LET next == sorted[i]
         IN  IF ShouldMerge(Gap(current, next), max_gap)
             THEN MergeLoop(sorted, i + 1, MergedSegment(current, next, buf),
                            out, buf, max_gap)
             ELSE MergeLoop(sorted, i + 1, next, Append(out, current), buf,
                            max_gap)

MergeCloseSegments(segs, buf, max_gap) ==
    IF segs = <<>> THEN segs
    ELSE LET sorted == SortByStart(segs)
         IN  MergeLoop(sorted, 2, sorted[1], <<>>, buf, max_gap)

-----------------------------------------------------------------------------
(* SampleRateConverter: simple_resample.                                   *)
(*                                                                         *)
(* The code computes in f64: ratio = from_rate / to_rate, input.len() /    *)
(* ratio, i * ratio and the interpolation.  The model computes the exact   *)
(* rational values, with the ratio reduced to lowest terms f / t, and      *)
(* carries the f64 rounding as a choice `fp` made by the arithmetic, not   *)
(* by the caller:                                                          *)
(*  - when t is a power of two the ratio and, for the small operands of    *)
(*    the model, every later product, quotient and sum are exactly         *)
(*    representable, and the f64 results are the exact ones;               *)
(*  - otherwise the ratio is rounded, and a result whose exact value is a  *)
(*    whole number may land just below it in magnitude: the output length  *)
(*    is then one less (fp.len_low), and the cast of an interpolated       *)
(*    sample gives the next integer toward zero (i \in fp.low).  A result  *)
(*    whose exact value is no whole number is far from one and is not      *)
(*    affected.                                                            *)

RECURSIVE GCD(_, _)
GCD(a, b) == IF b = 0 THEN a ELSE GCD(b, a % b)

RECURSIVE IsPowerOfTwo(_)
IsPowerOfTwo(n) == n = 1 \/ (n > 1 /\ n % 2 = 0 /\ IsPowerOfTwo(n \div 2))

\* from_rate / to_rate in lowest terms.
RatioNum(from, to) == from \div GCD(from, to)
RatioDen(from, to) == to \div GCD(from, to)

\* from_rate as f64 / to_rate as f64 is exact.
ExactRatio(from, to) == IsPowerOfTwo(RatioDen(from, to))

\* Integer division that truncates toward zero (t > 0).
TruncDiv(a, t) == IF a >= 0 THEN a \div t ELSE -((-a) \div t)

TowardZero(n) == IF n > 0 THEN n - 1 ELSE IF n < 0 THEN n + 1 ELSE 0

\* (input.len() as f64 / ratio) as usize
OutputLen(n, from, to, fp) ==
    LET exact == (n * RatioDen(from, to)) \div RatioNum(from, to)
        whole == (n * RatioDen(from, to)) % RatioNum(from, to) = 0
    IN  IF fp.len_low /\ ~ExactRatio(from, to) /\ whole /\ exact > 0
        THEN exact - 1
        ELSE exact

\* `interpolated as i16` of the value vnum / t: truncation toward zero; with
\* `low`, a whole value that f64 landed just inside of.
CastI16Mutant(vnum, t, low) == vnum \div t

CastI16(vnum, t, low) ==
    IF low /\ vnum % t = 0 THEN TowardZero(vnum \div t)
    ELSE TruncDiv(vnum, t)

\* The exact value of output element i is a whole number that rounding can
\* land inside of: never at i = 0, where src_pos = 0.0 and frac = 0.0.
MayLandLow(input, from, to, i) ==
    LET f == RatioNum(from, to)
        t == RatioDen(from, to)
        src_index == (i * f) \div t
        num == (i * f) % t
    IN  /\ ~ExactRatio(from, to)
        /\ i > 0
        /\ src_index < Len(input)
        /\ \/ num = 0
           \/ /\ src_index + 1 < Len(input)
              /\ (input[src_index + 1] * t
                   + (input[src_index + 2] - input[src_index + 1]) * num) % t = 0

\* The second sample of the interpolation is read under this guard.
HasNextMutant(src_index, n) == src_index < n

HasNext(src_index, n) == src_index + 1 < n

\* src_pos = i as f64 * ratio; src_index = src_pos as usize
SrcIndex(i, f, t) == (i * f) \div t

\* One pass of the loop body for output index i: the sample pushed.
Interpolated(input, f, t, i, low) ==
    LET src_index == SrcIndex(i, f, t)
        num == (i * f) % t
    IN  IF HasNext(src_index, Len(input))
        THEN LET sample1 == input[src_index + 1]
                 \* input[src_index + 1] past the end panics; ReadsAt
                 \* records the index either way
                 sample2 == IF src_index + 1 < Len(input)
                            THEN input[src_index + 2] ELSE 0
             IN  CastI16(sample1 * t + (sample2 - sample1) * num, t, low)
        ELSE IF low /\ num = 0 THEN TowardZero(input[src_index + 1])
             ELSE input[src_index + 1]

\* The indices of `input` that pass reads.  A product i * ratio that landed
\* just below the whole number src_index reads src_index - 1 and src_index.
ReadsAt(input, f, t, i, low) ==
    LET src_index == SrcIndex(i, f, t)
        num == (i * f) % t
    IN  {src_index}
        \cup (IF HasNext(src_index, Len(input)) THEN {src_index + 1} ELSE {})
        \cup (IF low /\ num = 0 THEN {src_index - 1} ELSE {})

\* for i in 0..output_len { if src_index >= input.len() { break; } .. }:
\* src_index never decreases with i, so the passes made are those of the
\* indices i < output_len whose src_index is inside the input.
ResampleLoop(input, f, t, output_len, fp) ==
    LET passes == Cardinality({i \in 0..(output_len - 1) :
                                  SrcIndex(i, f, t) < Len(input)})
    IN  [output |-> [j \in 1..passes |->
                        Interpolated(input, f, t, j - 1, (j - 1) \in fp.low)],
         reads |-> UNION {ReadsAt(input, f, t, i, i \in fp.low) :
                            i \in 0..(passes - 1)}]

SimpleResample(input, from, to, fp) ==
    IF from = to
    THEN [output |-> input, reads |-> {}]
    ELSE ResampleLoop(input, RatioNum(from, to), RatioDen(from, to),
                      OutputLen(Len(input), from, to, fp), fp)

RECURSIVE SubsetsUpTo(_, _)
SubsetsUpTo(S, k) ==
    IF k = 0 THEN {{}}
    ELSE LET smaller == SubsetsUpTo(S, k - 1)
         IN  smaller \cup {x \cup {e} : x \in smaller, e \in S}

\* The roundings f64 can make on this call, at most MaxLow casts among them.
FpOutcomes(input, from, to) ==
    LET exactLen == (Len(input) * RatioDen(from, to)) \div RatioNum(from, to)
        eligible == {i \in 0..(exactLen - 1) : MayLandLow(input, from, to, i)}
    IN  {[len_low |-> b, low |-> l] :
            b \in IF from # to /\ ~ExactRatio(from, to) THEN BOOLEAN ELSE {FALSE},
            l \in SubsetsUpTo(eligible, MaxLow)}

-----------------------------------------------------------------------------
(* ContainerEncoder: samples_to_wav_bytes.                                 *)
(*                                                                         *)
(* A u32 is the record [hi, lo] of its two 16-bit halves, value            *)
(* hi * 65536 + lo.  An arithmetic result carries `overflow`: Rust panics  *)
(* on u32 overflow when overflow checks are compiled in (debug builds) and *)
(* wraps modulo 2^32 when they are not (release builds).                   *)

Half == 256 * 256

U32(n) == [hi |-> n \div Half, lo |-> n % Half]

\* a + b in u32, wrapped, with the carry out of bit 31.
AddU32(a, b) ==
    LET lo == a.lo + b.lo
        hi == a.hi + b.hi + (lo \div Half)
    IN  [value |-> [hi |-> hi % Half, lo |-> lo % Half],
         overflow |-> hi >= Half]

\* a * 2 in u32.
TimesTwoU32(a) == AddU32(a, a)

\* u32::to_le_bytes
U32ToLeBytes(a) ==
    <<a.lo % 256, a.lo \div 256, a.hi % 256, a.hi \div 256>>

\* u16::to_le_bytes
U16ToLeBytes(n) == <<n % 256, n \div 256>>

\* i16::to_le_bytes: two's complement, low byte first.
I16ToLeBytesMutant(sample) ==
    LET u == IF sample < 0 THEN sample + Half ELSE sample
    IN  <<u \div 256, u % 256>>

I16ToLeBytes(sample) ==
    LET u == IF sample < 0 THEN sample + Half ELSE sample
    IN  <<u % 256, u \div 256>>

RECURSIVE SamplesToLeBytes(_, _)
SamplesToLeBytes(samples, i) ==
    IF i > Len(samples) THEN <<>>
    ELSE I16ToLeBytes(samples[i]) \o SamplesToLeBytes(samples, i + 1)

TagRIFF == <<82, 73, 70, 70>>
TagWAVE == <<87, 65, 86, 69>>
TagFmt  == <<102, 109, 116, 32>>
TagData == <<100, 97, 116, 97>>

\* samples_to_wav_bytes(samples, sample_rate); overflow_checks is the build's
\* setting.
SamplesToWavBytes(samples, sample_rate, overflow_checks) ==
    LET num_samples == U32(Len(samples))
        byte_rate == TimesTwoU32(sample_rate)
        data_size == TimesTwoU32(num_samples)
        file_size == AddU32(U32(36), data_size.value)
        wav_data ==
            TagRIFF \o U32ToLeBytes(file_size.value) \o TagWAVE
            \o TagFmt \o U32ToLeBytes(U32(16)) \o U16ToLeBytes(1)
            \o U16ToLeBytes(1) \o U32ToLeBytes(sample_rate)
            \o U32ToLeBytes(byte_rate.value) \o U16ToLeBytes(2)
            \o U16ToLeBytes(16)
            \o TagData \o U32ToLeBytes(data_size.value)
            \o SamplesToLeBytes(samples, 1)
    IN  IF overflow_checks
           /\ (byte_rate.overflow \/ data_size.overflow \/ file_size.overflow)
        THEN [status |-> "panic", bytes |-> <<>>]
        ELSE [status |-> "ok", bytes |-> wav_data]

-----------------------------------------------------------------------------
(* samples_to_wav_base64 (lines 386-423).  It takes the samples only: the  *)
(* header is written for 16 kHz, mono, 16 bits, and the bytes go through   *)
(* base64::encode.  A text is a sequence of character codes.               *)

\* The standard alphabet: A-Z, a-z, 0-9, '+', '/'.
Base64Char(v) ==
    IF v < 26 THEN 65 + v
    ELSE IF v < 52 THEN 97 + (v - 26)
    ELSE IF v < 62 THEN 48 + (v - 52)
    ELSE IF v = 62 THEN 43 ELSE 47

Base64Pad == 61

\* The 1, 2 or 3 bytes b starting a group, as 4 characters.
Base64GroupMutant(b) ==
    LET n == Len(b)
        b1 == b[1]
        b2 == IF n >= 2 THEN b[2] ELSE 0
        b3 == IF n >= 3 THEN b[3] ELSE 0
    IN  <<Base64Char((b1 % 4) * 16 + (b2 \div 16)),
          Base64Char(b1 \div 4),
          IF n >= 2 THEN Base64Char((b2 % 16) * 4 + (b3 \div 64)) ELSE Base64Pad,
          IF n >= 3 THEN Base64Char(b3 % 64) ELSE Base64Pad>>

Base64Group(b) ==
    LET n == Len(b)
        b1 == b[1]
        b2 == IF n >= 2 THEN b[2] ELSE 0
        b3 == IF n >= 3 THEN b[3] ELSE 0
    IN  <<Base64Char(b1 \div 4),
          Base64Char((b1 % 4) * 16 + (b2 \div 16)),
          IF n >= 2 THEN Base64Char((b2 % 16) * 4 + (b3 \div 64)) ELSE Base64Pad,
          IF n >= 3 THEN Base64Char(b3 % 64) ELSE Base64Pad>>

\* base64::encode
RECURSIVE Base64Encode(_)
Base64Encode(bytes) ==
    IF bytes = <<>> THEN <<>>
    ELSE IF Len(bytes) <= 3 THEN Base64Group(bytes)
    ELSE Base64Group(SubSeq(bytes, 1, 3))
         \o Base64Encode(SubSeq(bytes, 4, Len(bytes)))

\* samples_to_wav_base64(samples).  (samples.len() * 2) as u32 truncates;
\* 36 + that is u32 arithmetic.
SamplesToWavBase64(samples, overflow_checks) ==
    LET sample_rate == U32(SampleRateHz)
        channels == 1
        bits_per_sample == 16
        file_size == AddU32(U32(36), U32(Len(samples) * 2))
        byte_rate == U32((SampleRateHz * channels * bits_per_sample) \div 8)
        block_align == (channels * bits_per_sample) \div 8
        data_size == U32(Len(samples) * 2)
        wav_data ==
            TagRIFF \o U32ToLeBytes(file_size.value) \o TagWAVE
            \o TagFmt \o U32ToLeBytes(U32(16)) \o U16ToLeBytes(1)
            \o U16ToLeBytes(channels) \o U32ToLeBytes(sample_rate)
            \o U32ToLeBytes(byte_rate) \o U16ToLeBytes(block_align)
            \o U16ToLeBytes(bits_per_sample)
            \o TagData \o U32ToLeBytes(data_size)
            \o SamplesToLeBytes(samples, 1)
    IN  IF overflow_checks /\ file_size.overflow
        THEN [status |-> "panic", text |-> <<>>]
        ELSE [status |-> "ok", text |-> Base64Encode(wav_data)]

-----------------------------------------------------------------------------
(* Inputs.                                                                 *)

Label == {"Speech", "NonSpeech"}

RECURSIVE SeqsUpTo(_, _)
SeqsUpTo(S, n) ==
    IF n = 0 THEN {<<>>}
    ELSE LET shorter == SeqsUpTo(S, n - 1)
         IN  shorter \cup {Append(s, x) : s \in {t \in shorter : Len(t) = n - 1}, x \in S}

\* Concrete scenario 1 of the specification: four chunks of 512 samples.
ScenarioLabels == <<"Speech", "Speech", "NonSpeech", "Speech">>
ScenarioInput ==
    [labels |-> ScenarioLabels, chunk_size |-> ChunkSize,
     content |-> Ramp(Len(ScenarioLabels) * ChunkSize)]

\* Three runs of speech, one and two chunks apart.
UnevenGapsInput ==
    [labels |-> <<"Speech", "NonSpeech", "Speech", "NonSpeech", "NonSpeech",
                  "Speech">>,
     chunk_size |-> 1, content |-> Ramp(6)]

\* Label streams of up to MaxLabels chunks over buffers of 1..MaxBuf samples:
\* the stream may cover the buffer exactly, fall short of it, or run past it.
AssemblerInputs ==
    {[labels |-> l, chunk_size |-> c, content |-> Ramp(n)] :
        l \in SeqsUpTo(Label, MaxLabels), c \in 1..MaxChunk, n \in 1..MaxBuf}
    \cup {ScenarioInput, UnevenGapsInput}

\* Thresholds: two and one sample periods below zero, zero, half a sample
\* period and one sample period; the 32 ms gap of the scenario and the
\* pipeline's 1.5 s.
SmallGaps ==
    {g * TicksPerSample : g \in (-2)..1} \cup {TicksPerSample \div 2}
ScenarioGaps == {0, ChunkSize * TicksPerSample, PipelineMaxGapSeconds}
MaxGaps == SmallGaps \cup ScenarioGaps

\* The segment of the data model over samples s .. e-1 of the buffer.
SegmentOver(buf, s, e) ==
    AudioSegment(s, e, TimeSeconds(s), TimeSeconds(e), Slice(buf, s, e))

\* Every non-empty range of the buffer as a segment.
SegmentsOf(buf) ==
    {SegmentOver(buf, r[1], r[2]) :
        r \in {q \in (0..Len(buf)) \X (0..Len(buf)) : q[1] < q[2]}}

\* Merge inputs: lists of up to MaxSegs segments of one buffer, in any order,
\* overlapping or not, with every small threshold; and the two raw segments
\* of concrete scenarios 1 and 2 with the thresholds 0, 32 ms and 1.5 s.
MergeInputs ==
    {[content |-> Ramp(MaxSample), segments |-> l, max_gap_seconds |-> g] :
        l \in SeqsUpTo(SegmentsOf(Ramp(MaxSample)), MaxSegs), g \in SmallGaps}
    \cup
    {[content |-> ScenarioInput.content,
      segments |-> <<SegmentOver(ScenarioInput.content, 0, 2 * ChunkSize),
                     SegmentOver(ScenarioInput.content, 3 * ChunkSize,
                                 4 * ChunkSize)>>,
      max_gap_seconds |-> g] : g \in ScenarioGaps}

Idle == [status |-> "idle"]

\* A specification of one component leaves the other components' variables
\* at these values.
PipeIdle ==
    /\ file_path = Idle /\ progress = <<>> /\ decoder_calls = 0
    /\ decoded = Idle /\ raw_segments = 0 /\ result = Idle
ExtractIdle ==
    /\ ex_file = Idle /\ start_time_seconds = 0 /\ end_time_seconds = 0
    /\ ex_result = Idle /\ processor = Idle
UploadIdle ==
    /\ uploads = <<>> /\ files = <<>> /\ alone_files = <<>> /\ calls = <<>>
CoreIdle ==
    /\ content = <<>> /\ labels = <<>> /\ chunk_size = ChunkSize
    /\ segments = <<>> /\ max_gap_seconds = PipelineMaxGapSeconds
    /\ merged = <<>> /\ remerged = <<>>
    /\ rs_input = <<>> /\ from_rate = 1 /\ to_rate = 1 /\ rs_result = Idle
    /\ wav_samples = <<>> /\ wav_rate = 0 /\ wav_result = Idle
    /\ wav_base64 = Idle

-----------------------------------------------------------------------------
(* The pipeline run: process_audio_vad (lib.rs 149-180) calling            *)
(* process_audio_file_with_progress (lines 149-302).  What is modelled is  *)
(* the control flow and every call of progress_callback; the decoder, the  *)
(* classifier and the sample data are outcomes drawn from small sets.      *)
(* A file name is a sequence of characters.  A progress value is the       *)
(* fraction num/den of a percent.                                          *)

MaxPacketBatches == 21   \* the decoder reads up to 50 * MaxPacketBatches packets
MaxRawSegments == 12     \* most segments handed to the merge

\* Path::extension of a file name: nothing without a '.', nothing when the
\* only '.' leads the name, otherwise what follows the last '.'.
LastDot(name) ==
    LET dots == {i \in 1..Len(name) : name[i] = "."}
    IN  IF dots = {} THEN 0 ELSE CHOOSE i \in dots : \A j \in dots : j <= i

NoExtension == <<"none">>

Extension(name) ==
    IF LastDot(name) <= 1 THEN NoExtension
    ELSE SubSeq(name, LastDot(name) + 1, Len(name))

UpperCase == <<"A", "C", "F", "G", "L", "M", "O", "P", "V", "W">>
LowerCase == <<"a", "c", "f", "g", "l", "m", "o", "p", "v", "w">>

\* str::to_lowercase, character by character.
ToLowerCharMutant(c) == c

ToLowerChar(c) ==
    IF \E i \in 1..Len(UpperCase) : UpperCase[i] = c
    THEN LowerCase[CHOOSE i \in 1..Len(UpperCase) : UpperCase[i] = c]
    ELSE c

ToLowercase(str) == [i \in 1..Len(str) |-> ToLowerChar(str[i])]

\* Lines 155-158: extension().and_then(to_str).unwrap_or("").to_lowercase()
DetectedExtension(name) ==
    IF Extension(name) = NoExtension THEN <<>>
    ELSE ToLowercase(Extension(name))

\* Line 165: the extensions that pass the gate.
SupportedFormats ==
    {<<"w", "a", "v">>,
     <<"m", "p", "3">>,
     <<"m", "4", "a">>,
     <<"a", "a", "c">>,
     <<"f", "l", "a", "c">>,
     <<"o", "g", "g">>}

Pct(n) == [num |-> n, den |-> 1]

LeqPct(a, b) == a.num * b.den <= b.num * a.den

Update(step, value) == [step |-> step, num |-> value.num, den |-> value.den]

\* Lines 100-101: 10.0 + (packet_count / 1000) * 15.0, at most 24.0.
DecodeProgressMutant(packet_count) ==
    [num |-> 10000 + 15 * packet_count, den |-> 1000]

DecodeProgress(packet_count) ==
    LET decode_progress == [num |-> 10000 + 15 * packet_count, den |-> 1000]
    IN  IF LeqPct(decode_progress, Pct(24)) THEN decode_progress ELSE Pct(24)

\* Lines 96-102: one update for every 50th packet of `packets` packets.
DecodeUpdates(packets) ==
    [k \in 1..(packets \div 50) |->
        Update("Decoding audio packets", DecodeProgress(50 * k))]

\* Line 332: 90.0 + (processed / total_segments) * 5.0
MergeProgress(processed, total_segments) ==
    [num |-> 90 * total_segments + 5 * processed, den |-> total_segments]

\* Lines 314-334: nothing for an empty list; otherwise, for processed =
\* 1 .. total_segments - 1, an update at every tenth and at the last.
RECURSIVE MergeUpdatesFrom(_, _)
MergeUpdatesFrom(processed, total_segments) ==
    IF processed > total_segments - 1 THEN <<>>
    ELSE (IF processed % 10 = 0 \/ processed = total_segments - 1
          THEN <<Update("Merging segments",
                        MergeProgress(processed, total_segments))>>
          ELSE <<>>)
         \o MergeUpdatesFrom(processed + 1, total_segments)

MergeUpdates(total_segments) ==
    IF total_segments = 0 THEN <<>> ELSE MergeUpdatesFrom(1, total_segments)

FileNames ==
    {<<"a", ".", "w", "a", "v">>,
     <<"a", ".", "W", "A", "V">>,
     <<"a", ".", "M", "p", "3">>,
     <<"a", ".", "m", "4", "a">>,
     <<"a", ".", "A", "a", "C">>,
     <<"a", ".", "f", "l", "a", "c">>,
     <<"a", ".", "O", "G", "G">>,
     <<"a">>,
     <<".", "w", "a", "v">>,
     <<"a", ".">>,
     <<"a", ".", "t", "x", "t">>,
     <<"a", ".", "w", "a", "v", ".", "t", "x", "t">>,
     <<"a", ".", "t", "x", "t", ".", "w", "a", "v">>,
     <<"a", ".", "w", "a", "v", "e">>,
     <<"a", ".", "w", "a">>}

PacketCounts == {50 * b : b \in 0..MaxPacketBatches} \cup {1, 49, 51}

Err(kind) == [status |-> "error", kind |-> kind]
Ok(count) == [status |-> "ok", segments |-> count]

-----------------------------------------------------------------------------
(* extract_segment_from_file (lines 508-533).  The file is what the        *)
(* decoder makes of it: samples and a rate, or a failure.  Times are whole *)
(* quarters of a second, held in ticks, so that time * rate is exact in    *)
(* f64 as it is here.                                                      *)

MaxExtractLen == 3    \* longest decoded buffer enumerated
MaxExtractRate == 2   \* largest decoded sample rate enumerated

QuarterSecond == TicksPerSecond \div 4

\* (time * sample_rate as f64) as usize: truncated, and 0 below zero.
SampleIndex(time, sample_rate) ==
    IF time * sample_rate < 0 THEN 0
    ELSE (time * sample_rate) \div TicksPerSecond

\* Line 525
IsInvalidRangeMutant(start_sample, end_sample) == start_sample > end_sample

IsInvalidRange(start_sample, end_sample) == start_sample >= end_sample

ExtractSegmentFromFile(file, start_time, end_time) ==
    IF file.status # "ok" THEN Err("DecodeFailure")
    ELSE
        LET audio_samples == file.samples
            sample_rate == file.sample_rate
            start_sample == Min(SampleIndex(start_time, sample_rate),
                                Len(audio_samples))
            end_sample == Min(SampleIndex(end_time, sample_rate),
                              Len(audio_samples))
        IN  IF IsInvalidRange(start_sample, end_sample)
            THEN Err("InvalidRange")
            ELSE [status |-> "ok",
                  samples |-> Slice(audio_samples, start_sample, end_sample),
                  sample_rate |-> sample_rate]

\* AudioProcessor::new()
NewProcessor == [sample_rate |-> "SixteenkHz"]

\* What the decoder may return for the file: never an empty buffer.
DecodedFiles ==
    {[status |-> "ok", samples |-> Ramp(n), sample_rate |-> r] :
        n \in 1..MaxExtractLen, r \in 1..MaxExtractRate}
    \cup {[status |-> "error"]}

\* From half a second before zero to a second past the longest buffer.
ExtractTimes ==
    {q * QuarterSecond : q \in (-2)..(4 * (MaxExtractLen + 1))}

-----------------------------------------------------------------------------
(* save_audio_file_chunked (lib.rs 23-84).  Each call appends its chunk to *)
(* the file named session_id + "_" + filename in the shared temporary      *)
(* directory; the call whose chunk_index is total_chunks - 1 goes on to    *)
(* decode that file, write the processed copy under a fresh UUID and       *)
(* delete the file.  The commands are async and run concurrently, so the   *)
(* steps of different calls interleave.                                    *)

MaxChunks == 2     \* most chunks of one upload

\* Line 36: format!("{}_{}", session_id, filename)
TempFilename(session_id, filename) == (session_id \o <<"_">>) \o filename

Absent == [exists |-> FALSE, bytes |-> <<>>]

\* Lines 40-47: OpenOptions::new().create(true).append(true), write_all.
AppendTo(file, chunk_data) ==
    [exists |-> TRUE, bytes |-> file.bytes \o chunk_data]

\* Line 50
IsLastChunk(chunk_index, total_chunks) == chunk_index = total_chunks - 1

\* The chunk_data of chunk k of upload u: one byte, different for each.
ChunkData(u, k) == <<16 * u + k>>

Upload(session_id, filename, total_chunks, u) ==
    [session_id |-> session_id, filename |-> filename,
     total_chunks |-> total_chunks,
     chunks |-> [k \in 1..total_chunks |-> ChunkData(u, k - 1)]]

\* The first upload, and the second: the same session and file name again,
\* another session whose name runs into the same file, and one apart.
FirstUploads ==
    {Upload(<<"s">>, <<"a", "_", "a">>, n, 1) : n \in 1..MaxChunks}
SecondUploads ==
    {Upload(sf[1], sf[2], n, 2) :
        sf \in {<<(<<"s">>), (<<"a", "_", "a">>)>>,
                <<(<<"s", "_", "a">>), (<<"a">>)>>,
                <<(<<"s", "_", "a">>), (<<"a", "_", "a">>)>>},
        n \in 1..MaxChunks}

TempPath(u) == TempFilename(uploads[u].session_id, uploads[u].filename)

Pending == [pc |-> "pending", result |-> "none", decoded_file |-> Absent,
            alone_file |-> Absent]

-----------------------------------------------------------------------------
(* SpecAssemble: the tail of process_audio_file_with_progress, from the    *)
(* label stream to the merged segments.                                    *)

InitAssemble ==
    /\ pc = "labelled"
    /\ \E in \in AssemblerInputs :
          /\ labels = in.labels
          /\ chunk_size = in.chunk_size
          /\ content = in.content
    /\ max_gap_seconds \in MaxGaps
    /\ segments = <<>>
    /\ merged = <<>>
    /\ remerged = <<>>
    /\ rs_input = <<>> /\ from_rate = 1 /\ to_rate = 1 /\ rs_result = Idle
    /\ wav_samples = <<>> /\ wav_rate = 0 /\ wav_result = Idle
    /\ wav_base64 = Idle /\ PipeIdle /\ ExtractIdle /\ UploadIdle

\* Lines 220-290: convert the labelled chunks to raw segments.
Assemble ==
    /\ pc = "labelled"
    /\ segments' = AssembleSegments(labels, chunk_size, content)
    /\ pc' = "assembled"
    /\ UNCHANGED <<content, labels, chunk_size, max_gap_seconds, merged,
                   remerged, rsVars, wavVars, pipeVars, exVars, upVars>>

\* Line 296: merge the raw segments.
MergeAssembled ==
    /\ pc = "assembled"
    /\ merged' = MergeCloseSegments(segments, content, max_gap_seconds)
    /\ pc' = "pipeline_merged"
    /\ UNCHANGED <<content, labels, chunk_size, segments, max_gap_seconds,
                   remerged, rsVars, wavVars, pipeVars, exVars, upVars>>

NextAssemble == Assemble \/ MergeAssembled

SpecAssemble == InitAssemble /\ [][NextAssemble]_vars

-----------------------------------------------------------------------------
(* SpecMerge: merge_close_segments_with_progress applied to a segment      *)
(* list, and applied again to its own output.                              *)

InitMerge ==
    /\ pc = "merge_input"
    /\ \E in \in MergeInputs :
          /\ content = in.content
          /\ segments = in.segments
          /\ max_gap_seconds = in.max_gap_seconds
    /\ labels = <<>> /\ chunk_size = ChunkSize
    /\ merged = <<>>
    /\ remerged = <<>>
    /\ rs_input = <<>> /\ from_rate = 1 /\ to_rate = 1 /\ rs_result = Idle
    /\ wav_samples = <<>> /\ wav_rate = 0 /\ wav_result = Idle
    /\ wav_base64 = Idle /\ PipeIdle /\ ExtractIdle /\ UploadIdle

MergeCall ==
    /\ pc = "merge_input"
    /\ merged' = MergeCloseSegments(segments, content, max_gap_seconds)
    /\ pc' = "merged"
    /\ UNCHANGED <<content, labels, chunk_size, segments, max_gap_seconds,
                   remerged, rsVars, wavVars, pipeVars, exVars, upVars>>

MergeAgain ==
    /\ pc = "merged"
    /\ remerged' = MergeCloseSegments(merged, content, max_gap_seconds)
    /\ pc' = "remerged"
    /\ UNCHANGED <<content, labels, chunk_size, segments, max_gap_seconds,
                   merged, rsVars, wavVars, pipeVars, exVars, upVars>>

NextMerge == MergeCall \/ MergeAgain

SpecMerge == InitMerge /\ [][NextMerge]_vars

-----------------------------------------------------------------------------
(* SpecResample: simple_resample applied to an input and a pair of rates.  *)

SampleValues == {-32768, -3, 0, 2, 32767}

\* Concrete scenario 4 of the specification.
ScenarioResample ==
    [input |-> <<0, 100, 200, 300>>, from_rate |-> 2, to_rate |-> 1]

\* Rates the program meets: the decoder's rate to the 16 kHz target.
TargetRateHz == SampleRateHz
DecodedRates == {8000, TargetRateHz, 44100, 48000}

\* Inputs of up to MaxInput samples with every pair of rates 1..MaxRate, the
\* same inputs with the decoder's rates, 441 samples at 44100 Hz (exactly 160
\* output samples) and scenario 4.
ResampleInputs ==
    {[input |-> x, from_rate |-> f, to_rate |-> t] :
        x \in SeqsUpTo(SampleValues, MaxInput),
        f \in 1..MaxRate, t \in 1..MaxRate}
    \cup {[input |-> x, from_rate |-> f, to_rate |-> TargetRateHz] :
            x \in SeqsUpTo(SampleValues, MaxInput), f \in DecodedRates}
    \cup {[input |-> Ramp(441), from_rate |-> 44100, to_rate |-> TargetRateHz],
          ScenarioResample}

InitResample ==
    /\ pc = "resample_input"
    /\ \E in \in ResampleInputs :
          /\ rs_input = in.input
          /\ from_rate = in.from_rate
          /\ to_rate = in.to_rate
    /\ rs_result = Idle
    /\ content = <<>> /\ labels = <<>> /\ chunk_size = ChunkSize
    /\ segments = <<>> /\ max_gap_seconds = PipelineMaxGapSeconds
    /\ merged = <<>> /\ remerged = <<>>
    /\ wav_samples = <<>> /\ wav_rate = 0 /\ wav_result = Idle
    /\ wav_base64 = Idle /\ PipeIdle /\ ExtractIdle /\ UploadIdle

Resample ==
    /\ pc = "resample_input"
    /\ \E fp \in FpOutcomes(rs_input, from_rate, to_rate) :
          LET r == SimpleResample(rs_input, from_rate, to_rate, fp)
          IN  rs_result' = [status |-> "done", output |-> r.output,
                            reads |-> r.reads]
    /\ pc' = "resampled"
    /\ UNCHANGED <<content, labels, chunk_size, segments, max_gap_seconds,
                   merged, remerged, rs_input, from_rate, to_rate, wavVars,
                   pipeVars, exVars, upVars>>

NextResample == Resample

SpecResample == InitResample /\ [][NextResample]_vars

-----------------------------------------------------------------------------
(* SpecWav: samples_to_wav_bytes applied to a sample sequence and a rate.  *)

WavSampleValues == {-32768, -256, -1, 0, 1, 255, 256, 32767}

\* Sample rates across the u32 range: the rates the program uses, the
\* smallest, one that needs both halves, and those around 2^31, from which
\* sample_rate * 2 no longer fits a u32.
WavRates ==
    {U32(1), U32(8000), U32(SampleRateHz), U32(44100),
     [hi |-> 1, lo |-> 0], [hi |-> 2, lo |-> 48000],
     [hi |-> 32767, lo |-> 65535], [hi |-> 32768, lo |-> 0],
     [hi |-> 65535, lo |-> 65535]}

InitWav ==
    /\ pc = "wav_input"
    /\ wav_samples \in SeqsUpTo(WavSampleValues, MaxWavLen)
    /\ wav_rate \in WavRates
    /\ wav_result = Idle
    /\ wav_base64 = Idle /\ PipeIdle /\ ExtractIdle /\ UploadIdle
    /\ content = <<>> /\ labels = <<>> /\ chunk_size = ChunkSize
    /\ segments = <<>> /\ max_gap_seconds = PipelineMaxGapSeconds
    /\ merged = <<>> /\ remerged = <<>>
    /\ rs_input = <<>> /\ from_rate = 1 /\ to_rate = 1 /\ rs_result = Idle

WavEncode ==
    /\ pc = "wav_input"
    /\ \E overflow_checks \in BOOLEAN :
          wav_result' = SamplesToWavBytes(wav_samples, wav_rate, overflow_checks)
    /\ pc' = "wav_encoded"
    /\ UNCHANGED <<content, labels, chunk_size, segments, max_gap_seconds,
                   merged, remerged, rsVars, wav_samples, wav_rate, wav_base64,
                   pipeVars, exVars, upVars>>

\* Lines 386-423: the text-safe encoding of the same samples.
WavEncodeBase64 ==
    /\ pc = "wav_encoded"
    /\ \E overflow_checks \in BOOLEAN :
          wav_base64' = SamplesToWavBase64(wav_samples, overflow_checks)
    /\ pc' = "wav_textsafe"
    /\ UNCHANGED <<content, labels, chunk_size, segments, max_gap_seconds,
                   merged, remerged, rsVars, wav_samples, wav_rate, wav_result,
                   pipeVars, exVars, upVars>>

NextWav == WavEncode \/ WavEncodeBase64

SpecWav == InitWav /\ [][NextWav]_vars

-----------------------------------------------------------------------------
(* SpecPipeline: one invocation of process_audio_vad.                      *)

InitPipeline ==
    /\ pc = "vad_invoked"
    /\ \E name \in FileNames, exists \in BOOLEAN :
          file_path = [name |-> name, exists |-> exists]
    /\ progress = <<>>
    /\ decoder_calls = 0
    /\ decoded = Idle
    /\ raw_segments = 0
    /\ result = Idle
    /\ CoreIdle /\ ExtractIdle /\ UploadIdle

\* lib.rs 149-172: a missing file is refused before the pipeline is entered.
ProcessAudioVad ==
    /\ pc = "vad_invoked"
    /\ IF file_path.exists
       THEN pc' = "pipeline_entered" /\ UNCHANGED result
       ELSE pc' = "returned" /\ result' = Err("FileNotFound")
    /\ UNCHANGED <<file_path, progress, decoder_calls, decoded, raw_segments,
                   coreVars, exVars, upVars>>

\* Lines 153-171: report 5%, then the format gate.
ValidateFormat ==
    /\ pc = "pipeline_entered"
    /\ progress' = Append(progress, Update("Validating file format", Pct(5)))
    /\ IF DetectedExtension(file_path.name) \in SupportedFormats
       THEN pc' = "format_validated" /\ UNCHANGED result
       ELSE pc' = "returned" /\ result' = Err("UnsupportedFormat")
    /\ UNCHANGED <<file_path, decoder_calls, decoded, raw_segments,
                   coreVars, exVars, upVars>>

\* Lines 174-175 and 39-141: report 10%, call the decoder, which reports
\* every 50th packet and returns the samples and the rate, or fails.
DecodeAudio ==
    /\ pc = "format_validated"
    /\ decoder_calls' = decoder_calls + 1
    /\ \E packets \in PacketCounts, status \in {"ok", "error"},
          rate \in {TargetRateHz, 44100} :
          /\ decoded' = [status |-> status, packets |-> packets,
                         rate |-> rate]
          /\ progress' = Append(progress,
                                Update("Decoding audio file", Pct(10)))
                         \o DecodeUpdates(packets)
          /\ IF status = "ok"
             THEN pc' = "decoded" /\ UNCHANGED result
             ELSE pc' = "returned" /\ result' = Err("DecodeFailure")
    /\ UNCHANGED <<file_path, raw_segments, coreVars, exVars, upVars>>

\* Lines 182-198: report 25%; resample, reporting 35% and 45%, when the
\* decoded rate is not 16 kHz.
NormalizeRate ==
    /\ pc = "decoded"
    /\ progress' =
          Append(progress, Update("Audio decoded", Pct(25)))
          \o (IF decoded.rate # TargetRateHz
              THEN <<Update("Resampling audio", Pct(35)),
                     Update("Audio resampled", Pct(45))>>
              ELSE <<>>)
    /\ pc' = "normalized"
    /\ UNCHANGED <<file_path, decoder_calls, decoded, raw_segments, result,
                   coreVars, exVars, upVars>>

\* Lines 202-218: report 50%, build the classifier (which may fail), report
\* 60%, label the chunks, report 75%.
Classify ==
    /\ pc = "normalized"
    /\ \E built \in BOOLEAN :
          IF built
          THEN /\ progress' = progress \o
                     <<Update("Running voice activity detection", Pct(50)),
                       Update("Analyzing speech patterns", Pct(60)),
                       Update("Speech detection complete", Pct(75))>>
               /\ pc' = "classified"
               /\ UNCHANGED result
          ELSE /\ progress' = Append(progress,
                     Update("Running voice activity detection", Pct(50)))
               /\ pc' = "returned"
               /\ result' = Err("ClassifierFailure")
    /\ UNCHANGED <<file_path, decoder_calls, decoded, raw_segments,
                   coreVars, exVars, upVars>>

\* Lines 221-293: report 80%, assemble the raw segments, report 90%.
ExtractSegments ==
    /\ pc = "classified"
    /\ raw_segments' \in 0..MaxRawSegments
    /\ progress' = progress \o
          <<Update("Extracting speech segments", Pct(80)),
            Update("Optimizing segments", Pct(90))>>
    /\ pc' = "extracted"
    /\ UNCHANGED <<file_path, decoder_calls, decoded, result,
                   coreVars, exVars, upVars>>

\* Lines 296-301: merge, reporting as it goes, report 95%, return Ok.
MergeSegments ==
    /\ pc = "extracted"
    /\ progress' = (progress \o MergeUpdates(raw_segments))
                   \o <<Update("Segmentation complete", Pct(95))>>
    /\ pc' = "pipeline_ok"
    /\ UNCHANGED <<file_path, decoder_calls, decoded, raw_segments, result,
                   coreVars, exVars, upVars>>

\* lib.rs 173-177: on Ok, report 100% and return the segments.
Complete ==
    /\ pc = "pipeline_ok"
    /\ \E count \in {n \in 0..raw_segments : (n = 0) <=> (raw_segments = 0)} :
          result' = Ok(count)
    /\ progress' = Append(progress, Update("Processing complete", Pct(100)))
    /\ pc' = "returned"
    /\ UNCHANGED <<file_path, decoder_calls, decoded, raw_segments,
                   coreVars, exVars, upVars>>

NextPipeline ==
    \/ ProcessAudioVad
    \/ ValidateFormat
    \/ DecodeAudio
    \/ NormalizeRate
    \/ Classify
    \/ ExtractSegments
    \/ MergeSegments
    \/ Complete

SpecPipeline == InitPipeline /\ [][NextPipeline]_vars

-----------------------------------------------------------------------------
(* SpecExtract: one call of extract_segment_from_file.                     *)

InitExtract ==
    /\ pc = "extract_input"
    /\ ex_file \in DecodedFiles
    /\ start_time_seconds \in ExtractTimes
    /\ end_time_seconds \in ExtractTimes
    /\ ex_result = Idle
    /\ processor = NewProcessor
    /\ CoreIdle /\ PipeIdle /\ UploadIdle

\* Lines 508-533; the method borrows the processor immutably.
ExtractSegment ==
    /\ pc = "extract_input"
    /\ ex_result' = ExtractSegmentFromFile(ex_file, start_time_seconds,
                                           end_time_seconds)
    /\ pc' = "range_extracted"
    /\ UNCHANGED <<ex_file, start_time_seconds, end_time_seconds, processor,
                   coreVars, pipeVars, upVars>>

NextExtract == ExtractSegment

SpecExtract == InitExtract /\ [][NextExtract]_vars

-----------------------------------------------------------------------------
(* SpecUpload: two chunked uploads, their calls arriving in any order and  *)
(* running concurrently.                                                   *)

InitUpload ==
    /\ pc = "uploading"
    /\ \E first \in FirstUploads, second \in SecondUploads :
          /\ uploads = <<first, second>>
          /\ files = [p \in {TempFilename(up.session_id, up.filename) :
                                up \in {first, second}} |-> Absent]
          /\ calls = [c \in {d \in (1..2) \X (0..(MaxChunks - 1)) :
                                d[2] < <<first, second>>[d[1]].total_chunks}
                        |-> Pending]
    /\ alone_files = <<Absent, Absent>>
    /\ CoreIdle /\ PipeIdle /\ ExtractIdle

\* Lines 30-47 and 80-83: append the chunk; a call that is not the last
\* chunk returns.
AppendChunk(u, k) ==
    /\ <<u, k>> \in DOMAIN calls
    /\ calls[<<u, k>>].pc = "pending"
    /\ files' = [files EXCEPT ![TempPath(u)] =
                    AppendTo(@, uploads[u].chunks[k + 1])]
    /\ alone_files' = [alone_files EXCEPT ![u] =
                          AppendTo(@, uploads[u].chunks[k + 1])]
    /\ calls' = [calls EXCEPT ![<<u, k>>] =
                    IF IsLastChunk(k, uploads[u].total_chunks)
                    THEN [@ EXCEPT !.pc = "appended"]
                    ELSE [@ EXCEPT !.pc = "returned",
                                   !.result = "chunk_received"]]
    /\ UNCHANGED <<pc, uploads, coreVars, pipeVars, exVars>>

\* Lines 50-54: the last chunk's call decodes the file as it is now; a file
\* that is not there fails the call.
DecodeFile(u, k) ==
    /\ <<u, k>> \in DOMAIN calls
    /\ calls[<<u, k>>].pc = "appended"
    /\ calls' = [calls EXCEPT ![<<u, k>>] =
                    IF files[TempPath(u)].exists
                    THEN [@ EXCEPT !.pc = "decoded",
                                   !.decoded_file = files[TempPath(u)],
                                   !.alone_file = alone_files[u]]
                    ELSE [@ EXCEPT !.pc = "returned",
                                   !.result = "decode_failed",
                                   !.alone_file = alone_files[u]]]
    /\ UNCHANGED <<pc, uploads, files, alone_files, coreVars, pipeVars,
                   exVars>>

\* Lines 56-79: resample, write the processed file under a fresh UUID,
\* delete the session file, return the processed path.
FinishUpload(u, k) ==
    /\ <<u, k>> \in DOMAIN calls
    /\ calls[<<u, k>>].pc = "decoded"
    /\ files' = [files EXCEPT ![TempPath(u)] = Absent]
    /\ alone_files' = [alone_files EXCEPT ![u] = Absent]
    /\ calls' = [calls EXCEPT ![<<u, k>>] =
                    [@ EXCEPT !.pc = "returned", !.result = "processed"]]
    /\ UNCHANGED <<pc, uploads, coreVars, pipeVars, exVars>>

NextUpload ==
    \E u \in 1..2, k \in 0..(MaxChunks - 1) :
        \/ AppendChunk(u, k)
        \/ DecodeFile(u, k)
        \/ FinishUpload(u, k)

SpecUpload == InitUpload /\ [][NextUpload]_vars

-----------------------------------------------------------------------------
(* Maximal runs of Speech labels, stated from the label stream alone.      *)

\* <<a, b>>: chunks a .. b-1 (0-based) are Speech, chunk a-1 and chunk b are
\* not (or lie outside the stream).
IsRun(lbls, a, b) ==
    /\ a < b
    /\ \A k \in (a + 1)..b : lbls[k] = "Speech"
    /\ a = 0 \/ lbls[a] = "NonSpeech"
    /\ b = Len(lbls) \/ lbls[b + 1] = "NonSpeech"

Runs(lbls) ==
    {r \in (0..Len(lbls)) \X (0..Len(lbls)) : IsRun(lbls, r[1], r[2])}

\* Position (1-based) of run r among a set of runs ordered by first chunk.
RunRank(rs, r) == 1 + Cardinality({q \in rs : q[1] < r[1]})

\* Where the segment of run r ends: at the NonSpeech chunk that follows it,
\* or at the end of the buffer when the labels end inside the run.
RunEndSample(lbls, size, buf, r) ==
    IF r[2] = Len(lbls) THEN Len(buf) ELSE r[2] * size

\* `segs` is one segment per run of rs, in chunk order, with the run's bounds.
OnePerRun(segs, rs, lbls, size, buf) ==
    /\ Len(segs) = Cardinality(rs)
    /\ \A r \in rs :
          /\ segs[RunRank(rs, r)].start_sample = r[1] * size
          /\ segs[RunRank(rs, r)].end_sample = RunEndSample(lbls, size, buf, r)

Assembled == pc \in {"assembled", "pipeline_merged"}

\* C1 (as stated): the raw segments are one per maximal run of Speech
\* labels, in chunk order, opened at the run's first chunk start and closed
\* at the following NonSpeech chunk start or, when the labels end inside the
\* run, at the buffer length.
C1_OnePerRun ==
    Assembled => OnePerRun(segments, Runs(labels), labels, chunk_size, content)

\* C1 (amended): the raw segments are one per maximal run of Speech labels
\* whose first chunk starts before the end of the buffer, in chunk order and
\* with the bounds above; a run that starts at or past the end of the buffer
\* yields an empty slice and no segment.
C1_OnePerRunInsideBuffer ==
    Assembled =>
        OnePerRun(segments,
                  {r \in Runs(labels) : r[1] * chunk_size < Len(content)},
                  labels, chunk_size, content)

\* C1 witness: concrete scenario 1, labels [Speech, Speech, NonSpeech,
\* Speech] with chunk_size 512 over 2048 samples, assembled into [0,1024)
\* and [1536,2048).
C1_Witness ==
    /\ pc = "assembled"
    /\ labels = ScenarioLabels /\ chunk_size = ChunkSize
    /\ Len(content) = 4 * ChunkSize
    /\ Len(segments) = 2
    /\ segments[1].start_sample = 0 /\ segments[1].end_sample = 2 * ChunkSize
    /\ segments[2].start_sample = 3 * ChunkSize
    /\ segments[2].end_sample = 4 * ChunkSize

\* Run r contains the sample range of seg.
WithinRun(seg, r, size) ==
    r[1] * size <= seg.start_sample /\ seg.end_sample <= r[2] * size

\* C2 (as stated): every raw segment lies within exactly one maximal run of
\* Speech-labelled chunks, so no sample at or past len(labels)*chunk_size is
\* in a segment.
C2_WithinOneRun ==
    Assembled =>
        \A i \in 1..Len(segments) :
            /\ Cardinality({r \in Runs(labels) :
                               WithinRun(segments[i], r, chunk_size)}) = 1
            /\ segments[i].end_sample <= Len(labels) * chunk_size

\* C2 (amended): every raw segment starts inside exactly one maximal run of
\* Speech-labelled chunks and ends no later than that run, except the
\* segment of a run still open when the labels end, which is the last
\* segment and ends at the buffer length: it holds the unlabelled tail of
\* the buffer whenever the labels cover less than the buffer.
C2_WithinOneRunOrToBufferEnd ==
    Assembled =>
        \A i \in 1..Len(segments) :
            LET seg == segments[i]
                home == {r \in Runs(labels) :
                            /\ r[1] * chunk_size <= seg.start_sample
                            /\ seg.start_sample < r[2] * chunk_size}
            IN  /\ Cardinality(home) = 1
                /\ \A r \in home :
                      \/ seg.end_sample <= r[2] * chunk_size
                      \/ /\ r[2] = Len(labels)
                         /\ i = Len(segments)
                         /\ seg.end_sample = Len(content)

\* C2 witness: the labels end in Speech and cover less than the buffer; the
\* last raw segment runs to the end of the buffer, past the labelled range.
C2_Witness ==
    /\ pc = "assembled"
    /\ labels # <<>> /\ labels[Len(labels)] = "Speech"
    /\ Len(labels) * chunk_size < Len(content)
    /\ segments # <<>>
    /\ segments[Len(segments)].end_sample = Len(content)
    /\ Len(segments[Len(segments)].audio_data)
          > Len(labels) * chunk_size - segments[Len(segments)].start_sample

\* A segment as the data model defines it: a non-empty range of the buffer,
\* its times those of its two ends, its samples the buffer over that range.
WellFormed(seg, buf) ==
    /\ seg.end_sample > seg.start_sample
    /\ seg.start_time_seconds = TimeSeconds(seg.start_sample)
    /\ seg.end_time_seconds = TimeSeconds(seg.end_sample)
    /\ Len(seg.audio_data) = seg.end_sample - seg.start_sample
    /\ seg.end_sample <= Len(buf)
    /\ seg.audio_data = Slice(buf, seg.start_sample, seg.end_sample)

\* C3 (as stated): every segment produced by assembly and by merge has
\* end_sample > start_sample, samples = buffer[start_sample:end_sample], so
\* len(samples) = end_sample - start_sample, and times start_sample / rate
\* and end_sample / rate, also when the labelled range runs past the buffer.
C3_SegmentsWellFormed ==
    /\ Assembled =>
          \A i \in 1..Len(segments) : WellFormed(segments[i], content)
    /\ pc = "pipeline_merged" =>
          \A i \in 1..Len(merged) : WellFormed(merged[i], content)

-----------------------------------------------------------------------------
(* Claims about the merger, checked under SpecMerge.                       *)

Merged == pc \in {"merged", "remerged"}

\* Positions i of the walk w after which a new output starts: the gap from
\* segment i to segment i+1 exceeds the threshold.
Breaks(w, max_gap) ==
    {i \in 1..(Len(w) - 1) :
        w[i + 1].start_time_seconds - w[i].end_time_seconds > max_gap}

\* First and last walk position of the j-th group between the breaks brk.
GroupLo(brk, j) ==
    IF j = 1 THEN 1
    ELSE 1 + CHOOSE i \in brk : Cardinality({b \in brk : b < i}) = j - 2
GroupHi(brk, n, j) ==
    IF j = Cardinality(brk) + 1 THEN n
    ELSE CHOOSE i \in brk : Cardinality({b \in brk : b < i}) = j - 1

\* C4: walking the segments sorted by start time, the next segment is merged
\* into the accumulator exactly when next.start_time_s - current.end_time_s
\* <= max_gap_s (a gap equal to the threshold merges); otherwise the
\* accumulator is emitted and the next segment becomes the accumulator.  So
\* the output has one segment per group of consecutive segments whose gaps
\* are all within the threshold: a segment left alone is emitted as it came
\* in, a merged one spans the group's first start to its last end, with the
\* times of those ends and the samples re-sliced from the buffer.
C4_MergeDecision ==
    (pc = "merged" /\ segments # <<>>) =>
        LET w == SortByStart(segments)
            brk == Breaks(w, max_gap_seconds)
        IN  /\ Len(merged) = Cardinality(brk) + 1
            /\ \A j \in 1..Len(merged) :
                  LET lo == w[GroupLo(brk, j)]
                      hi == w[GroupHi(brk, Len(w), j)]
                  IN  IF GroupLo(brk, j) = GroupHi(brk, Len(w), j)
                      THEN merged[j] = lo
                      ELSE merged[j] =
                              AudioSegment(lo.start_sample, hi.end_sample,
                                  lo.start_time_seconds, hi.end_time_seconds,
                                  Slice(content, lo.start_sample,
                                        hi.end_sample))

\* C4 witness: the raw segments [0,1024) and [1536,2048) with a threshold of
\* exactly their gap, 512 samples = 32 ms, merged into the one segment
\* [0,2048).
C4_Witness ==
    /\ pc = "merged"
    /\ Len(segments) = 2
    /\ segments[1].end_sample = 2 * ChunkSize
    /\ segments[2].start_sample = 3 * ChunkSize
    /\ max_gap_seconds = Gap(segments[1], segments[2])
    /\ Len(merged) = 1
    /\ merged[1].start_sample = 0 /\ merged[1].end_sample = 4 * ChunkSize
    /\ merged[1].audio_data = content

\* The output is ordered by start time and adjacent outputs do not overlap.
OrderedApart(segs) ==
    \A i \in 1..(Len(segs) - 1) :
        /\ segs[i].start_time_seconds <= segs[i + 1].start_time_seconds
        /\ segs[i].end_time_seconds <= segs[i + 1].start_time_seconds

\* C5 (as stated): for every input list and every max_gap_s the output of
\* merge is ordered by start time and adjacent outputs a, b satisfy
\* a.end_time_s <= b.start_time_s.
C5_NonOverlapAnyGap == Merged => OrderedApart(merged)

\* C5 (amended): the same for every input list and every max_gap_s >= 0.
C5_NonOverlap == (Merged /\ max_gap_seconds >= 0) => OrderedApart(merged)

\* C5 witness: overlapping inputs given out of order, of which the merge
\* keeps two separate outputs.
C5_Witness ==
    /\ pc = "merged"
    /\ max_gap_seconds >= 0
    /\ Len(merged) >= 2
    /\ \E i, j \in 1..Len(segments) :
          /\ i < j
          /\ segments[j].start_sample < segments[i].start_sample
    /\ \E i, j \in 1..Len(segments) :
          /\ i # j
          /\ segments[i].start_sample < segments[j].start_sample
          /\ segments[j].start_sample < segments[i].end_sample

\* C6: merge applied to its own output returns it unchanged: the same
\* number of segments, in the same order, with the same sample bounds, time
\* bounds and samples.
C6_MergeIdempotent == pc = "remerged" => remerged = merged

\* C6 witness: a first merge that joined segments and still left more than
\* one output, merged a second time.
C6_Witness ==
    /\ pc = "remerged"
    /\ Len(merged) >= 2
    /\ Len(merged) < Len(segments)

\* C7: every output segment's sample range contains the sample range of at
\* least one input segment.
C7_MergeSuperset ==
    (Merged /\ segments # <<>>) =>
        \A j \in 1..Len(merged) :
            \E i \in 1..Len(segments) :
                /\ merged[j].start_sample <= segments[i].start_sample
                /\ segments[i].end_sample <= merged[j].end_sample

\* C7 witness: an output made by merging, strictly larger than every input.
C7_Witness ==
    /\ pc = "merged"
    /\ segments # <<>>
    /\ \E j \in 1..Len(merged) :
          \A i \in 1..Len(segments) :
              merged[j].end_sample - merged[j].start_sample
                  > segments[i].end_sample - segments[i].start_sample

-----------------------------------------------------------------------------
(* Claims about the resampler, checked under SpecResample.                 *)

Resampled == pc = "resampled"

\* The claim's formula for output element i (0-based), in exact arithmetic:
\* ratio = from_rate / to_rate, k = floor(i * ratio), frac = i * ratio - k.
FormulaValue(x, from, to, i) ==
    LET k == (i * from) \div to
        fracNum == (i * from) % to
    IN  IF k + 1 < Len(x)
        THEN TruncDiv(x[k + 1] * to + (x[k + 2] - x[k + 1]) * fracNum, to)
        ELSE x[k + 1]

\* The exact value before truncation is a whole number.
FormulaWhole(x, from, to, i) ==
    LET k == (i * from) \div to
        fracNum == (i * from) % to
    IN  \/ fracNum = 0
        \/ k + 1 < Len(x)
           /\ ((x[k + 2] - x[k + 1]) * fracNum) % to = 0

\* C8: resample(x, r, r) = x; for from_rate # to_rate the output has
\* floor(len(x) / ratio) elements and element i is input[floor(i*ratio)] +
\* (input[floor(i*ratio)+1] - input[floor(i*ratio)]) * frac(i*ratio)
\* truncated toward zero when floor(i*ratio)+1 < len(x), input[floor(i*ratio)]
\* otherwise.  The arithmetic is f64: where the ratio is exactly
\* representable the value and the length are the exact ones; where it is
\* not, a result that is exactly a whole number may be computed just inside
\* it, which truncates to the next integer toward zero (and gives a length
\* one less).
C8_ResampleResult ==
    Resampled =>
        LET x == rs_input
            out == rs_result.output
            exactLen == (Len(x) * to_rate) \div from_rate
        IN  IF from_rate = to_rate THEN out = x
            ELSE /\ \/ Len(out) = exactLen
                    \/ /\ Len(out) = exactLen - 1
                       /\ ~ExactRatio(from_rate, to_rate)
                       /\ (Len(x) * to_rate) % from_rate = 0
                 /\ \A i \in 0..(Len(out) - 1) :
                       \/ out[i + 1] = FormulaValue(x, from_rate, to_rate, i)
                       \/ /\ ~ExactRatio(from_rate, to_rate)
                          /\ i > 0
                          /\ FormulaWhole(x, from_rate, to_rate, i)
                          /\ out[i + 1] =
                                TowardZero(FormulaValue(x, from_rate, to_rate, i))

\* C8 witness: concrete scenario 4, resample([0,100,200,300], 2, 1) = [0,200].
C8_Witness ==
    /\ Resampled
    /\ rs_input = <<0, 100, 200, 300>> /\ from_rate = 2 /\ to_rate = 1
    /\ rs_result.output = <<0, 200>>

\* C9: for positive rates, len(resample(x, from, to)) differs from
\* floor(len(x) * to / from) by at most 1, the loop reads no index
\* >= len(x), and an empty input gives an empty output.
C9_ResampleLength ==
    Resampled =>
        LET want == (Len(rs_input) * to_rate) \div from_rate
            got == Len(rs_result.output)
        IN  /\ got - want \in {-1, 0, 1}
            /\ \A k \in rs_result.reads : k >= 0 /\ k < Len(rs_input)
            /\ rs_input = <<>> => rs_result.output = <<>>

\* C9 witness: 441 samples from 44100 Hz to 16000 Hz, where the quotient is
\* exactly 160 and f64 may give 159: the output is one short of the exact
\* length and the loop has read the input up to its last but one sample.
C9_Witness ==
    /\ Resampled
    /\ from_rate = 44100 /\ to_rate = TargetRateHz
    /\ Len(rs_input) = 441
    /\ Len(rs_result.output) = 159
    /\ rs_result.reads # {}

-----------------------------------------------------------------------------
(* Claims about the container, checked under SpecWav.                      *)

\* Reading the container back: little-endian fields at 0-based offsets.
ReadU16(bytes, off) == bytes[off + 1] + 256 * bytes[off + 2]
ReadU32(bytes, off) ==
    [hi |-> ReadU16(bytes, off + 2), lo |-> ReadU16(bytes, off)]
ReadI16(bytes, off) ==
    IF ReadU16(bytes, off) >= 32768 THEN ReadU16(bytes, off) - Half
    ELSE ReadU16(bytes, off)

\* The canonical layout for n samples at `rate`, every field read back, and
\* the samples recovered in order.
RoundTrips(bytes, samples, rate) ==
    LET n == Len(samples)
    IN  /\ Len(bytes) = 44 + 2 * n
        /\ SubSeq(bytes, 1, 4) = TagRIFF
        /\ ReadU32(bytes, 4) = U32(36 + 2 * n)
        /\ SubSeq(bytes, 9, 12) = TagWAVE
        /\ SubSeq(bytes, 13, 16) = TagFmt
        /\ ReadU32(bytes, 16) = U32(16)
        /\ ReadU16(bytes, 20) = 1
        /\ ReadU16(bytes, 22) = 1
        /\ ReadU32(bytes, 24) = rate
        \* byte rate = rate * 2: as a number, not reduced modulo 2^32
        /\ ReadU32(bytes, 28).lo = (2 * rate.lo) % Half
        /\ ReadU32(bytes, 28).hi = 2 * rate.hi + (2 * rate.lo) \div Half
        /\ ReadU16(bytes, 32) = 2
        /\ ReadU16(bytes, 34) = 16
        /\ SubSeq(bytes, 37, 40) = TagData
        /\ ReadU32(bytes, 40) = U32(2 * n)
        /\ \A i \in 1..n : ReadI16(bytes, 44 + 2 * (i - 1)) = samples[i]

\* C10 (as stated): for every sample sequence of length n and every sample
\* rate, encode(samples, rate) is 44 + 2n bytes whose header reads back as
\* total size 36 + 2n, format chunk size 16, format 1, 1 channel, the rate,
\* byte rate rate * 2, block align 2, 16 bits per sample and data size 2n,
\* followed by the samples as 2 little-endian bytes each; decoding recovers
\* the rate and the samples.
C10_RoundTripAnyRate ==
    pc = "wav_encoded" =>
        /\ wav_result.status = "ok"
        /\ RoundTrips(wav_result.bytes, wav_samples, wav_rate)

\* C10 (amended): the same for every sample rate below 2^31, so that
\* rate * 2 fits the 4-byte field (and for n small enough that 36 + 2n does).
C10_RoundTrip ==
    (pc = "wav_encoded" /\ wav_rate.hi < 32768) =>
        /\ wav_result.status = "ok"
        /\ RoundTrips(wav_result.bytes, wav_samples, wav_rate)

\* C10 witness: two samples, one negative, encoded at 16 kHz into 48 bytes.
C10_Witness ==
    /\ pc = "wav_encoded"
    /\ wav_rate = U32(SampleRateHz)
    /\ wav_samples = <<-256, 255>>
    /\ wav_result.status = "ok"
    /\ Len(wav_result.bytes) = 48
    /\ SubSeq(wav_result.bytes, 45, 48) = <<0, 255, 255, 0>>

-----------------------------------------------------------------------------
(* Reading a base64 text back: the value of each character and the bytes   *)
(* of each group of four.                                                  *)

Base64Value(c) ==
    IF c >= 65 /\ c <= 90 THEN c - 65
    ELSE IF c >= 97 /\ c <= 122 THEN c - 97 + 26
    ELSE IF c >= 48 /\ c <= 57 THEN c - 48 + 52
    ELSE IF c = 43 THEN 62 ELSE 63

Base64GroupBytes(g) ==
    LET v1 == Base64Value(g[1])
        v2 == Base64Value(g[2])
        v3 == IF g[3] = Base64Pad THEN 0 ELSE Base64Value(g[3])
        v4 == IF g[4] = Base64Pad THEN 0 ELSE Base64Value(g[4])
        b1 == v1 * 4 + (v2 \div 16)
        b2 == (v2 % 16) * 16 + (v3 \div 4)
        b3 == (v3 % 4) * 64 + v4
    IN  IF g[3] = Base64Pad THEN <<b1>>
        ELSE IF g[4] = Base64Pad THEN <<b1, b2>>
        ELSE <<b1, b2, b3>>

RECURSIVE Base64Decode(_)
Base64Decode(text) ==
    IF Len(text) < 4 THEN <<>>
    ELSE Base64GroupBytes(SubSeq(text, 1, 4))
         \o Base64Decode(SubSeq(text, 5, Len(text)))

\* A text of the 64-symbol alphabet with padding: whole groups of four
\* characters, '=' only as the last one or two characters.
IsBase64Text(text) ==
    /\ Len(text) % 4 = 0
    /\ \A i \in 1..Len(text) :
          \/ \E v \in 0..63 : text[i] = Base64Char(v)
          \/ text[i] = Base64Pad /\ i >= Len(text) - 1
                /\ \A j \in i..Len(text) : text[j] = Base64Pad

TextSafeEncoded == pc = "wav_textsafe" /\ wav_result.status = "ok"

\* C11 (as stated): for every sample sequence and every sample rate,
\* encode_textsafe(samples, sample_rate) is the 64-symbol text encoding of
\* exactly the bytes of encode(samples, sample_rate): decoding the text
\* gives those bytes back, sample-rate and byte-rate fields included.
C11_TextSafeOfEncodeAnyRate ==
    TextSafeEncoded =>
        /\ wav_base64.status = "ok"
        /\ IsBase64Text(wav_base64.text)
        /\ Base64Decode(wav_base64.text) = wav_result.bytes

\* C11 (amended): the text-safe encoder takes the samples only.  For every
\* sample sequence its text decodes to exactly the bytes of
\* encode(samples, 16000), whatever rate the byte encoder was given; so it
\* is the text encoding of encode(samples, sample_rate) when sample_rate is
\* 16000.
C11_TextSafeOfEncodeAt16k ==
    pc = "wav_textsafe" =>
        /\ wav_base64.status = "ok"
        /\ IsBase64Text(wav_base64.text)
        /\ Base64Decode(wav_base64.text)
              = SamplesToWavBytes(wav_samples, U32(SampleRateHz), TRUE).bytes
        /\ (wav_rate = U32(SampleRateHz) /\ wav_result.status = "ok") =>
              /\ Base64Decode(wav_base64.text) = wav_result.bytes
              /\ wav_base64.text = Base64Encode(wav_result.bytes)

\* C11 witness: one sample at 16 kHz; the 46 bytes become 64 characters
\* ending in two padding characters, the first four spelling "UklG" (RIFF).
C11_Witness ==
    /\ pc = "wav_textsafe"
    /\ wav_rate = U32(SampleRateHz)
    /\ wav_samples = <<-256>>
    /\ Len(wav_result.bytes) = 46
    /\ Len(wav_base64.text) = 64
    /\ SubSeq(wav_base64.text, 1, 4) = <<85, 107, 108, 71>>
    /\ SubSeq(wav_base64.text, 63, 64) = <<Base64Pad, Base64Pad>>
    /\ Base64Decode(wav_base64.text) = wav_result.bytes

-----------------------------------------------------------------------------
(* The format gate and the progress values of a pipeline run.              *)

\* An upper-case letter and its lower-case letter.
UpperLowerPairs ==
    {<<"A", "a">>, <<"C", "c">>, <<"F", "f">>, <<"G", "g">>, <<"L", "l">>,
     <<"M", "m">>, <<"O", "o">>, <<"P", "p">>, <<"V", "v">>, <<"W", "w">>}

SameIgnoringCase(ext, fmt) ==
    /\ Len(ext) = Len(fmt)
    /\ \A i \in 1..Len(ext) :
          ext[i] = fmt[i] \/ <<ext[i], fmt[i]>> \in UpperLowerPairs

\* The name has an extension that is, case aside, one of wav, mp3, m4a, aac,
\* flac, ogg.
Recognized(name) ==
    /\ Extension(name) # NoExtension
    /\ \E fmt \in SupportedFormats : SameIgnoringCase(Extension(name), fmt)

\* C12: in every pipeline invocation whose file extension, compared
\* case-insensitively, is not one of wav, mp3, m4a, aac, flac, ogg (a
\* missing extension included), the invocation ends with the
\* unsupported-format error and the decoder is never invoked; for an
\* extension of the set the gate never rejects.
C12_FormatGate ==
    (pc \in {"pipeline_entered", "format_validated", "decoded", "normalized",
             "classified", "extracted", "pipeline_ok", "returned"}
     /\ file_path.exists) =>
        /\ ~Recognized(file_path.name) =>
              /\ decoder_calls = 0
              /\ decoded = Idle
              /\ pc # "pipeline_entered" =>
                    pc = "returned" /\ result = Err("UnsupportedFormat")
        /\ Recognized(file_path.name) =>
              /\ result # Err("UnsupportedFormat")
              /\ pc # "pipeline_entered" =>
                    (decoder_calls = 1 \/ pc = "format_validated")

\* C12 witness: a file without an extension is rejected after the 5% report,
\* the decoder not having been called.
C12_Witness ==
    /\ pc = "returned"
    /\ file_path = [name |-> <<"a">>, exists |-> TRUE]
    /\ result = Err("UnsupportedFormat")
    /\ decoder_calls = 0
    /\ Len(progress) = 1

-----------------------------------------------------------------------------
(* Progress.                                                               *)

Value(u) == [num |-> u.num, den |-> u.den]

InBand(u, lo, hi) == LeqPct(Pct(lo), Value(u)) /\ LeqPct(Value(u), Pct(hi))

IsComplete(u) == LeqPct(Pct(100), Value(u))

\* C15: the progress values of an invocation never decrease and stay within
\* 0..100; a decode-packet update is within 10..25 and a merge update within
\* 90..95, whatever the packet and segment counts; 100 is reported exactly
\* once, last, and only by an invocation that succeeds.
C15_ProgressOrdered ==
    /\ \A i \in 1..Len(progress) :
          /\ InBand(progress[i], 0, 100)
          /\ i > 1 => LeqPct(Value(progress[i - 1]), Value(progress[i]))
          /\ progress[i].step = "Decoding audio packets" =>
                InBand(progress[i], 10, 25)
          /\ progress[i].step = "Merging segments" =>
                InBand(progress[i], 90, 95)
          /\ IsComplete(progress[i]) =>
                /\ i = Len(progress)
                /\ pc = "returned"
                /\ result.status = "ok"
    /\ (pc = "returned" /\ result.status = "ok") =>
          /\ progress # <<>>
          /\ IsComplete(progress[Len(progress)])

\* C15 witness: a successful run over more than 1000 packets (the packet
\* updates reach their ceiling of 24%), resampled, with 12 raw segments (merge
\* updates at the tenth and the eleventh), ending in 100%.
C15_Witness ==
    /\ pc = "returned"
    /\ result.status = "ok"
    /\ decoded.packets = 50 * MaxPacketBatches
    /\ decoded.rate # TargetRateHz
    /\ raw_segments = 12
    /\ \E i \in 1..Len(progress) :
          /\ progress[i].step = "Decoding audio packets"
          /\ Value(progress[i]) = Pct(24)
    /\ Cardinality({i \in 1..Len(progress) :
                        progress[i].step = "Merging segments"}) = 2
    /\ Value(progress[Len(progress)]) = Pct(100)

-----------------------------------------------------------------------------
(* Extraction by time range.                                               *)

\* floor(time * rate), in samples.
FloorIndex(time, rate) == (time * rate) \div TicksPerSecond

Max(a, b) == IF a >= b THEN a ELSE b

\* The same, kept within 0 .. len.
ClampedIndex(time, rate, len) == Max(0, Min(FloorIndex(time, rate), len))

RangeExtracted == pc = "range_extracted"

\* C13 (as stated): every call with start_time >= end_time returns the
\* invalid-range error and no samples; whenever the call succeeds the
\* samples are the non-empty slice
\* buffer[floor(start_time*rate) : floor(end_time*rate)] with both indices
\* within the buffer; the processor is left as it was.
C13_ExtractRange ==
    RangeExtracted =>
        /\ start_time_seconds >= end_time_seconds =>
              ex_result = Err("InvalidRange")
        /\ ex_result.status = "ok" =>
              LET s == FloorIndex(start_time_seconds, ex_file.sample_rate)
                  e == FloorIndex(end_time_seconds, ex_file.sample_rate)
              IN  /\ 0 <= s /\ s < e /\ e <= Len(ex_file.samples)
                  /\ ex_result.samples = Slice(ex_file.samples, s, e)
                  /\ ex_result.samples # <<>>
        /\ processor = NewProcessor

\* C13 (amended): a call whose file does not decode returns the decode
\* error.  A call whose file decodes returns the invalid-range error, and no
\* samples, whenever start_time >= end_time, and more generally whenever the
\* two indices, floor(time*rate) kept within 0 .. len(buffer), satisfy
\* start >= end; otherwise it succeeds with the non-empty slice between the
\* two kept-within-the-buffer indices and the decoded rate.  The processor
\* is left as it was.
C13_ExtractClampedRange ==
    RangeExtracted =>
        /\ ex_file.status # "ok" => ex_result = Err("DecodeFailure")
        /\ ex_file.status = "ok" =>
              LET len == Len(ex_file.samples)
                  s == ClampedIndex(start_time_seconds, ex_file.sample_rate,
                                    len)
                  e == ClampedIndex(end_time_seconds, ex_file.sample_rate,
                                    len)
              IN  /\ start_time_seconds >= end_time_seconds => s >= e
                  /\ s >= e => ex_result = Err("InvalidRange")
                  /\ s < e =>
                        /\ ex_result.status = "ok"
                        /\ ex_result.samples = Slice(ex_file.samples, s, e)
                        /\ ex_result.samples # <<>>
                        /\ ex_result.sample_rate = ex_file.sample_rate
        /\ processor = NewProcessor

\* C13 witness: 3 samples at 1 Hz, range 1 s .. 4 s: the end is past the
\* buffer and the call returns samples 1 and 2.
C13_Witness ==
    /\ RangeExtracted
    /\ ex_file = [status |-> "ok", samples |-> Ramp(3), sample_rate |-> 1]
    /\ start_time_seconds = 4 * QuarterSecond
    /\ end_time_seconds = 16 * QuarterSecond
    /\ ex_result.status = "ok"
    /\ ex_result.samples = <<RampSample(1), RampSample(2)>>

-----------------------------------------------------------------------------
(* Uploads.                                                                *)

IsFinalCall(c) == IsLastChunk(c[2], uploads[c[1]].total_chunks)

\* The call has read the session file, or failed to.
HasDecoded(c) ==
    \/ calls[c].pc = "decoded"
    \/ calls[c].pc = "returned" /\ calls[c].result # "chunk_received"

\* C14: two concurrent uploads share no mutable state: in every
\* interleaving, what the final call of each upload decodes, and whether it
\* succeeds, is what it would be had the upload run alone.
C14_UploadsIndependent ==
    pc = "uploading" =>
        \A c \in DOMAIN calls :
            (IsFinalCall(c) /\ HasDecoded(c)) =>
                /\ calls[c].result # "decode_failed"
                /\ calls[c].decoded_file = calls[c].alone_file

RECURSIVE ConcatFrom(_, _)
ConcatFrom(chunks, k) ==
    IF k > Len(chunks) THEN <<>> ELSE chunks[k] \o ConcatFrom(chunks, k + 1)

\* C18: within one upload session, under any arrival order of its calls,
\* the final decode step runs only after all total_chunks chunks have been
\* appended, the file it decodes (the session's own appends) is the
\* concatenation of the chunks in index order, and it runs once.
C18_FinalStepSeesWholeFile ==
    pc = "uploading" =>
        \A c \in DOMAIN calls :
            (IsFinalCall(c) /\ HasDecoded(c)) =>
                /\ \A d \in DOMAIN calls :
                      d[1] = c[1] => calls[d].pc # "pending"
                /\ calls[c].alone_file.bytes
                      = ConcatFrom(uploads[c[1]].chunks, 1)
                /\ Cardinality({d \in DOMAIN calls :
                        d[1] = c[1] /\ IsFinalCall(d)}) = 1

-----------------------------------------------------------------------------
(* Empty inputs, and the merge of the assembler's own output.              *)

\* C16: an empty label stream makes the assembler emit no segments, for
\* every buffer; merge applied to an empty segment list returns an empty
\* list, for every buffer and max_gap_s.
C16_EmptyInEmptyOut ==
    /\ (Assembled /\ labels = <<>>) => segments = <<>>
    /\ (pc = "pipeline_merged" /\ segments = <<>>) => merged = <<>>

\* C16 witness: no labels over a buffer of three samples, assembled and
\* merged with a threshold of one sample period: nothing comes out.
C16_Witness ==
    /\ pc = "pipeline_merged"
    /\ labels = <<>>
    /\ content = Ramp(3)
    /\ max_gap_seconds = TicksPerSample
    /\ segments = <<>>
    /\ merged = <<>>

\* The sample range of a is within the sample range of b.
RangeWithin(a, b) ==
    b.start_sample <= a.start_sample /\ a.end_sample <= b.end_sample

\* C17: when merge is applied to the raw segments of the assembler with any
\* max_gap_s >= 0, every raw segment's sample range lies within the sample
\* range of exactly one output segment, the first output starts at the first
\* raw start and the last output ends at the last raw end.
C17_NoSpeechLost ==
    (pc = "pipeline_merged" /\ max_gap_seconds >= 0) =>
        /\ \A i \in 1..Len(segments) :
              Cardinality({j \in 1..Len(merged) :
                              RangeWithin(segments[i], merged[j])}) = 1
        /\ segments # <<>> =>
              /\ merged # <<>>
              /\ merged[1].start_sample = segments[1].start_sample
              /\ merged[Len(merged)].end_sample
                    = segments[Len(segments)].end_sample

\* C17 witness: raw segments [0,1), [2,3) and [5,6), one and two sample
\* periods apart, merged with a threshold of one sample period into [0,3)
\* and [5,6).
C17_Witness ==
    /\ pc = "pipeline_merged"
    /\ labels = UnevenGapsInput.labels
    /\ chunk_size = 1
    /\ content = Ramp(6)
    /\ max_gap_seconds = TicksPerSample
    /\ Len(segments) = 3
    /\ Len(merged) = 2
    /\ merged[1].start_sample = 0 /\ merged[1].end_sample = 3
    /\ merged[2].start_sample = 5 /\ merged[2].end_sample = 6

=============================================================================
